---- MODULE Spec2Model ----
(***************************************************************************)
(* The answer pipeline of the math agent: the two ask handlers             *)
(* (backend/backend/main.py and routes/ask.py), the keyword guardrails and *)
(* the result parsers they call.  Text is a sequence of one-character      *)
(* strings, so that lower-casing, trimming, line splitting and the regular *)
(* expressions of the source are computed character by character.          *)
(***************************************************************************)
EXTENDS Integers, Sequences, FiniteSets, TLC

(***************************************************************************)
(* Characters and the string primitives of Python the source relies on.    *)
(***************************************************************************)
LowerLetters == <<"a", "b", "c", "d", "e", "f", "g", "h", "i", "j", "k", "l", "m", "n", "o", "p", "q", "r", "s", "t", "u", "v", "w", "x", "y", "z">>

UpperLetters == <<"A", "B", "C", "D", "E", "F", "G", "H", "I", "J", "K", "L", "M", "N", "O", "P", "Q", "R", "S", "T", "U", "V", "W", "X", "Y", "Z">>

Digits == {"0", "1", "2", "3", "4", "5", "6", "7", "8", "9"}

Range(s) == {s[i] : i \in DOMAIN s}

LowerSet == Range(LowerLetters)

UpperSet == Range(UpperLetters)

IsDigit(c) == c \in Digits

IsSpace(c) == c \in {" ", "\t", "\n"}

IsAlpha(c) == c \in LowerSet \/ c \in UpperSet

\* \w of the re module: a letter, a digit or the underscore
IsWordChar(c) == IsAlpha(c) \/ IsDigit(c) \/ c = "_"

\* str.lower() on one character
ToLower == [c \in UpperSet |-> LowerLetters[CHOOSE i \in DOMAIN UpperLetters : UpperLetters[i] = c]]

LowerChar(c) == IF c \in UpperSet THEN ToLower[c] ELSE c

\* str.lower()
Lower(s) == [i \in DOMAIN s |-> LowerChar(s[i])]

\* s[i:] of Python, with i counted from 1
Drop(s, i) == SubSeq(s, i, Len(s))

\* s.startswith(w, i-1)
MatchAt(s, w, i) == i + Len(w) - 1 <= Len(s) /\ \A k \in DOMAIN w : s[i + k - 1] = w[k]

\* w in s
Contains(s, w) == \E i \in 1..(Len(s) + 1) : MatchAt(s, w, i)

\* the index of the first character of s at or after i that is no whitespace
RECURSIVE SkipSpaces(_, _)
SkipSpaces(s, i) == IF i <= Len(s) /\ IsSpace(s[i]) THEN SkipSpaces(s, i + 1) ELSE i

\* the index of the first character of s at or after i that is no digit
RECURSIVE SkipDigits(_, _)
SkipDigits(s, i) == IF i <= Len(s) /\ IsDigit(s[i]) THEN SkipDigits(s, i + 1) ELSE i

\* str.rstrip()
RECURSIVE RStrip(_)
RStrip(s) == IF s # <<>> /\ IsSpace(s[Len(s)]) THEN RStrip(SubSeq(s, 1, Len(s) - 1)) ELSE s

\* str.strip()
Strip(s) == RStrip(Drop(s, SkipSpaces(s, 1)))

\* str.splitlines(): the pieces between line breaks, no empty piece after a
\* final line break
RECURSIVE SplitFrom(_, _, _)
SplitFrom(s, i, cur) ==
    IF i > Len(s) THEN (IF cur = <<>> THEN <<>> ELSE <<cur>>)
    ELSE IF s[i] = "\n" THEN <<cur>> \o SplitFrom(s, i + 1, <<>>)
    ELSE SplitFrom(s, i + 1, Append(cur, s[i]))

SplitLines(s) == SplitFrom(s, 1, <<>>)

\* len(s.split()): the number of whitespace-delimited tokens
RECURSIVE CountTokens(_, _)
CountTokens(s, i) ==
    IF i > Len(s) THEN 0
    ELSE IF IsSpace(s[i]) THEN CountTokens(s, i + 1)
    ELSE (IF i = 1 \/ IsSpace(s[i - 1]) THEN 1 ELSE 0) + CountTokens(s, i + 1)

\* the concatenation of a sequence of strings
RECURSIVE Concat(_)
Concat(ss) == IF ss = <<>> THEN <<>> ELSE Head(ss) \o Concat(Tail(ss))

\* sep.join(ss)
RECURSIVE Join(_, _)
Join(sep, ss) ==
    IF ss = <<>> THEN <<>>
    ELSE IF Len(ss) = 1 THEN ss[1]
    ELSE ss[1] \o sep \o Join(sep, Tail(ss))

\* repr() of a str: backslash and tab escaped; single quotes unless the text
\* holds a single quote and no double quote
ReprChar(c, q) ==
    IF c = "\\" THEN <<"\\", "\\">>
    ELSE IF c = "\t" THEN <<"\\", "t">>
    ELSE IF c = "\n" THEN <<"\\", "n">>
    ELSE IF c = q THEN <<"\\", c>>
    ELSE <<c>>

ReprStr(s) ==
    LET q == IF "'" \in Range(s) /\ "\"" \notin Range(s) THEN "\"" ELSE "'"
    IN  <<q>> \o Concat([i \in DOMAIN s |-> ReprChar(s[i], q)]) \o <<q>>

\* str() of a list of str
StrList(ss) == <<"[">> \o Join(<<",", " ">>, [i \in DOMAIN ss |-> ReprStr(ss[i])]) \o <<"]">>

VARIABLES
    ptest,      \* the result parsers called on their own: texts and results
    gtest,      \* the guardrails called on their own: texts and results
    ctest,      \* the generator's cleaning of a model text called on its own
    fb          \* the feedback route: the log file, the calls, the retraining jobs


(***************************************************************************)
(* Guardrails (utils/guardrails.py; backend/backend/main.py has the same   *)
(* two functions with the same keyword lists).                             *)
(***************************************************************************)
allowed_keywords == {
    <<"i", "n", "t", "e", "g", "r", "a", "t", "e">>,
    <<"d", "i", "f", "f", "e", "r", "e", "n", "t", "i", "a", "t", "e">>,
    <<"d", "e", "r", "i", "v", "a", "t", "i", "v", "e">>,
    <<"e", "q", "u", "a", "t", "i", "o", "n">>,
    <<"m", "a", "t", "r", "i", "x">>,
    <<"l", "i", "m", "i", "t">>,
    <<"s", "o", "l", "v", "e">>,
    <<"f", "i", "n", "d">>,
    <<"f", "u", "n", "c", "t", "i", "o", "n">>,
    <<"v", "a", "l", "u", "e">>,
    <<"g", "r", "a", "p", "h">>,
    <<"a", "r", "e", "a">>,
    <<"v", "o", "l", "u", "m", "e">>}

banned_keywords == {
    <<"v", "i", "o", "l", "e", "n", "c", "e">>,
    <<"r", "e", "l", "i", "g", "i", "o", "n">>,
    <<"p", "o", "l", "i", "t", "i", "c", "s">>,
    <<"h", "a", "c", "k">>,
    <<"i", "l", "l", "e", "g", "a", "l">>,
    <<"s", "u", "i", "c", "i", "d", "e">>}

\* a slip: the keywords iterated letter by letter, so any letter of any keyword passes
input_guardrail_AnyLetter(question) ==
    LET lowered == Lower(question)
    IN  \E word \in allowed_keywords : \E k \in DOMAIN word : Contains(lowered, <<word[k]>>)

input_guardrail(question) ==
    LET lowered == Lower(question) IN \E word \in allowed_keywords : Contains(lowered, word)

output_guardrail(text) ==
    LET lowered == Lower(text) IN ~ \E bad \in banned_keywords : Contains(lowered, bad)

(***************************************************************************)
(* Result parser of backend/backend/main.py.                               *)
(***************************************************************************)
\* [ln.strip() for ln in txt.splitlines() if ln.strip()]
RECURSIVE NonEmptyStripped(_)
NonEmptyStripped(ls) ==
    IF ls = <<>> THEN <<>>
    ELSE (IF Strip(Head(ls)) = <<>> THEN <<>> ELSE <<Strip(Head(ls))>>)
         \o NonEmptyStripped(Tail(ls))

StrippedLines(txt) == NonEmptyStripped(SplitLines(txt))

\* the position of the '.' or ')' of ^(\d+)\s*[\.\)] in ln, 0 when ln does not match
NumberedMark(ln) ==
    LET d == SkipDigits(ln, 1)
        p == SkipSpaces(ln, d)
    IN  IF d > 1 /\ p <= Len(ln) /\ ln[p] \in {".", ")"} THEN p ELSE 0

\* re.match(r'^(\d+)\s*[\.\)]\s*(.*)$', ln)
IsNumbered(ln) == NumberedMark(ln) > 0

\* m.group(2).strip()
NumberedContent(ln) == Strip(Drop(ln, SkipSpaces(ln, NumberedMark(ln) + 1)))

\* the length of the (final answer|answer) prefix of ln matched with re.I, 0 when none
AnswerPrefix(ln) ==
    IF MatchAt(Lower(ln), <<"f", "i", "n", "a", "l", " ", "a", "n", "s", "w", "e", "r">>, 1) THEN 12
    ELSE IF MatchAt(Lower(ln), <<"a", "n", "s", "w", "e", "r">>, 1) THEN 6
    ELSE 0

\* the position of the ':' or '-' of ^(final answer|answer)\s*[:\-] in ln, 0 when
\* ln does not match
FinalMark(ln) ==
    LET k == AnswerPrefix(ln)
        p == SkipSpaces(ln, k + 1)
    IN  IF k > 0 /\ p <= Len(ln) /\ ln[p] \in {":", "-"} THEN p ELSE 0

\* re.match(r'^(final answer|answer)\s*[:\-]\s*(.*)$', ln, flags=re.I)
IsFinalLine(ln) == FinalMark(ln) > 0

\* m2.group(2).strip()
FinalContent(ln) == Strip(Drop(ln, SkipSpaces(ln, FinalMark(ln) + 1)))

\* re.search(r'[=\^\*/]|\\[a-z]+|\bC\b', ln)
HasMathMarker(ln) ==
    \E i \in DOMAIN ln :
        \/ ln[i] \in {"=", "^", "*", "/"}
        \/ ln[i] = "\\" /\ i < Len(ln) /\ ln[i + 1] \in LowerSet
        \/ /\ ln[i] = "C"
           /\ (i = 1 \/ ~IsWordChar(ln[i - 1]))
           /\ (i = Len(ln) \/ ~IsWordChar(ln[i + 1]))

\* the loop over the lines: acc is (steps, final_answer) so far
RECURSIVE ScanLines(_, _)
ScanLines(lines, acc) ==
    IF lines = <<>> THEN acc
    ELSE LET ln == Head(lines)
         IN  IF IsNumbered(ln)
             THEN ScanLines(Tail(lines), [acc EXCEPT !.steps = Append(@, NumberedContent(ln))])
             ELSE IF IsFinalLine(ln)
             THEN ScanLines(Tail(lines), [acc EXCEPT !.final_answer = FinalContent(ln)])
             ELSE IF HasMathMarker(ln)
             THEN ScanLines(Tail(lines), [acc EXCEPT !.steps = Append(@, ln)])
             ELSE ScanLines(Tail(lines), acc)

\* re.match(r'^[A-Za-z0-9\-\+\/*\^\(\)\s\._]+$', s) and len(s.split()) <= 8
MaxAnswerTokens == 8

LooksLikeAnswer(s) ==
    /\ s # <<>>
    /\ \A i \in DOMAIN s :
          \/ IsAlpha(s[i]) \/ IsDigit(s[i]) \/ IsSpace(s[i])
          \/ s[i] \in {"-", "+", "/", "*", "^", "(", ")", ".", "_"}
    /\ CountTokens(s, 1) <= MaxAnswerTokens

\* the parser's constant confidence 0.6, in ten-thousandths
ParsedConfidence == 6000

\* the post-pass: a short last step becomes the final answer when none was captured
PromoteLast(acc) ==
    IF acc.final_answer = <<>> /\ acc.steps # <<>> /\ LooksLikeAnswer(acc.steps[Len(acc.steps)])
    THEN [steps |-> SubSeq(acc.steps, 1, Len(acc.steps) - 1),
          final_answer |-> acc.steps[Len(acc.steps)]]
    ELSE acc

\* a slip: steps made a mutable default argument, so the list keeps the
\* steps of the call before
parse_generation_result_KeptSteps(gen_text) ==
    LET acc == PromoteLast(ScanLines(StrippedLines(gen_text),
                                     [steps |-> ptest.last.steps, final_answer |-> <<>>]))
    IN  [steps |-> acc.steps, final_answer |-> acc.final_answer, conf |-> ParsedConfidence]

parse_generation_result(gen_text) ==
    LET acc == PromoteLast(ScanLines(StrippedLines(gen_text), [steps |-> <<>>, final_answer |-> <<>>]))
    IN  [steps |-> acc.steps, final_answer |-> acc.final_answer, conf |-> ParsedConfidence]

(***************************************************************************)
(* Result parser of routes/ask.py.                                         *)
(***************************************************************************)
\* re.match(r'^\d+\.', ln)
RouterIsStep(ln) ==
    LET d == SkipDigits(ln, 1) IN d > 1 /\ d <= Len(ln) /\ ln[d] = "."

\* re.match(r'^(final answer|answer)', ln, re.I)
RouterIsFinal(ln) == AnswerPrefix(ln) > 0

\* ln.split(':', 1)[-1].strip()
AfterFirstColon(ln) ==
    IF ":" \in Range(ln)
    THEN Strip(Drop(ln, 1 + CHOOSE i \in DOMAIN ln : ln[i] = ":" /\ \A j \in 1..(i - 1) : ln[j] # ":"))
    ELSE Strip(ln)

RECURSIVE RouterScanLines(_, _)
RouterScanLines(lines, acc) ==
    IF lines = <<>> THEN acc
    ELSE LET ln == Head(lines)
         IN  IF RouterIsStep(ln)
             THEN RouterScanLines(Tail(lines), [acc EXCEPT !.steps = Append(@, ln)])
             ELSE IF RouterIsFinal(ln)
             THEN RouterScanLines(Tail(lines), [acc EXCEPT !.final_answer = AfterFirstColon(ln)])
             ELSE RouterScanLines(Tail(lines), acc)

router_parse_generation_result(gen_text) ==
    LET acc == RouterScanLines(StrippedLines(gen_text), [steps |-> <<>>, final_answer |-> <<>>])
    IN  [steps |-> acc.steps, final_answer |-> acc.final_answer, conf |-> ParsedConfidence]

(***************************************************************************)
(* Numbers.  A similarity score or a confidence is an integer number of    *)
(* ten-thousandths, so that rounding to three decimals changes something.  *)
(***************************************************************************)
\* KB_THRESHOLD default 0.78
KB_THRESHOLD == 7800

Max(a, b) == IF a >= b THEN a ELSE b

\* round(x, 3): to the nearest thousandth, an exact tie to the even one
Round3(x) ==
    LET t == x \div 10
        r == x % 10
    IN  IF r < 5 THEN 10 * t
        ELSE IF r > 5 THEN 10 * (t + 1)
        ELSE IF t % 2 = 0 THEN 10 * t ELSE 10 * (t + 1)

DigitChars == <<"0", "1", "2", "3", "4", "5", "6", "7", "8", "9">>

\* str() of a non-negative int
RECURSIVE IntToStr(_)
IntToStr(n) ==
    IF n < 10 THEN <<DigitChars[n + 1]>>
    ELSE IntToStr(n \div 10) \o <<DigitChars[(n % 10) + 1]>>

(***************************************************************************)
(* Inputs of one request: the question, and the replies of the three       *)
(* external collaborators.                                                 *)
(***************************************************************************)
MaxHits == 2

MaxGenLines == 2

Questions == {
    <<>>,
    <<" ", "\t", " ">>,
    <<"h", "e", "l", "l", "o", " ", "t", "h", "e", "r", "e">>,
    <<" ", "S", "o", "l", "v", "e", " ", "x", "=", "2", " ">>}

\* knowledge-base records as scripts/ingest_kb.py stores them: an int id and
\* a payload of strings, possibly empty
Records == {
    [id |-> 7,
     payload |-> [question |-> <<"d", "/", "d", "x", " ", "x", "^", "3">>,
                  steps |-> <<"A", "p", "p", "l", "y", " ", "p", "o", "w", "e", "r", " ", "r", "u", "l", "e">>,
                  final_answer |-> <<"3", "x", "^", "2">>]],
    [id |-> 42,
     payload |-> [question |-> <<"s", "o", "l", "v", "e", " ", "i", "t">>,
                  steps |-> <<>>,
                  final_answer |-> <<"I", "l", "l", "e", "g", "a", "l", " ", "m", "o", "v", "e">>]]}

\* 0.8125 is the one score here that is an exact tie of round(x, 3); every other
\* score has a last digit other than 5
Scores == {7799, 7800, 8125, 9106, 10500}

Hits == {[score |-> s, id |-> r.id, payload |-> r.payload] : s \in Scores, r \in Records}

\* the retrieval client's replies: at most MaxHits hits, by descending score
HitLists ==
    {hs \in UNION {[1..n -> Hits] : n \in 0..MaxHits} :
        \A i \in 1..(Len(hs) - 1) : hs[i].score >= hs[i + 1].score}

WebContexts == {<<>>, <<"x", "=", "2", " ", "i", "s", " ", "t", "h", "e", " ", "r", "o", "o", "t">>}

GenLines == {
    <<"1", ".", " ", "A", "p", "p", "l", "y", " ", "p", "o", "w", "e", "r", " ", "r", "u", "l", "e">>,
    <<"2", ")", " ", "H", "a", "c", "k", " ", "x", "=", "1">>,
    <<"F", "i", "n", "a", "l", " ", "A", "n", "s", "w", "e", "r", ":", " ", "3", "x", "^", "2">>,
    <<"a", "n", "s", "w", "e", "r", " ", "-", " ", "I", "l", "l", "e", "g", "a", "l">>,
    <<"S", "u", "r", "e", ",", " ", "h", "a", "p", "p", "y", " ", "t", "o", " ", "h", "e", "l", "p">>,
    <<"x", "^", "2", " ", "+", " ", "C">>}

\* the generator's replies: at most MaxGenLines of the lines above
GenTexts ==
    {Join(<<"\n">>, ls) : ls \in UNION {[1..n -> GenLines] : n \in 0..MaxGenLines}}

(***************************************************************************)
(* One ask request.  impl says which of the two handlers serves it.        *)
(***************************************************************************)
VARIABLES
    impl,       \* "main": backend/backend/main.py, "router": routes/ask.py
    pc,         \* the handler's position
    question,   \* req.question
    q,          \* req.question.strip()
    hits,       \* what kb_search returned
    context,    \* what web_search_fallback returned
    prompt,     \* which prompt the handler built
    gen_text,   \* what generate_with_gemini returned
    parsed,     \* what parse_generation_result returned
    calls,      \* the external calls issued so far, in order
    outcome,    \* how the request ended
    cur,        \* with several requests in flight: the one whose frame is above (0: one request)
    reqs        \* with several requests in flight: the frames of the suspended ones

\* the frame of one ask call: the handler chosen, its position, its locals
askVars == <<impl, pc, question, q, hits, context, prompt, gen_text, parsed, calls, outcome>>

\* what no step of a handler touches
otherVars == <<cur, reqs, ptest, gtest, ctest, fb>>

vars == <<askVars, otherVars>>

\* the replies of the collaborators when several requests are in flight
ConcQuestions == {
    <<>>,
    <<"h", "e", "l", "l", "o", " ", "t", "h", "e", "r", "e">>,
    <<" ", "S", "o", "l", "v", "e", " ", "x", "=", "2", " ">>}

ConcHitLists == {<<>>} \cup {<<h>> : h \in {x \in Hits : x.score = 9106 /\ x.id = 7}}

ConcGenTexts == {
    <<>>,
    <<"1", ".", " ", "A", "p", "p", "l", "y", " ", "p", "o", "w", "e", "r", " ", "r", "u", "l", "e">>,
    <<"a", "n", "s", "w", "e", "r", " ", "-", " ", "I", "l", "l", "e", "g", "a", "l">>}

KbReplies == IF cur = 0 THEN HitLists ELSE ConcHitLists

GenReplies == IF cur = 0 THEN GenTexts ELSE ConcGenTexts

NoTest == [pc |-> "idle"]

NoOutcome ==
    [kind |-> "none", status |-> 0, detail |-> "", steps |-> <<>>,
     final_answer |-> <<>>, sources |-> <<>>, confidence |-> 0]

NoParse == [steps |-> <<>>, final_answer |-> <<>>, conf |-> 0]

\* return AskOut(...)
AskOut(steps, final_answer, sources, confidence) ==
    [kind |-> "response", status |-> 200, detail |-> "", steps |-> steps,
     final_answer |-> final_answer, sources |-> sources, confidence |-> confidence]

\* raise HTTPException(status_code=..., detail=...)
HTTPException(status_code, detail) ==
    [NoOutcome EXCEPT !.kind = "error", !.status = status_code, !.detail = detail]

\* a slip: the exception caught and an empty answer returned in its place
Unhandled_Swallowed(exception) ==
    [NoOutcome EXCEPT !.kind = "response", !.status = 200]

\* any other exception leaves the handler and the framework answers 500
Unhandled(exception) ==
    [NoOutcome EXCEPT !.kind = "error", !.status = 500, !.detail = exception]

Init ==
    /\ impl \in {"main", "router"}
    /\ question \in Questions
    /\ pc = "Validating"
    /\ q = <<>>
    /\ hits = <<>>
    /\ context = <<>>
    /\ prompt = "none"
    /\ gen_text = <<>>
    /\ parsed = NoParse
    /\ calls = <<>>
    /\ outcome = NoOutcome
    /\ cur = 0
    /\ reqs = <<>>
    /\ ptest = NoTest
    /\ gtest = NoTest
    /\ ctest = NoTest
    /\ fb = NoTest

Finish(o) == pc' = "Done" /\ outcome' = o

\* backend/backend/main.py: q = req.question.strip() and the two input checks
MainValidate ==
    /\ pc = "Validating" /\ impl = "main"
    /\ q' = Strip(question)
    /\ IF q' = <<>>
       THEN Finish(HTTPException(400, "Empty question provided."))
       ELSE IF ~input_guardrail(q')
       THEN Finish(HTTPException(400, "This AI agent only supports mathematical questions."))
       ELSE pc' = "Retrieving" /\ UNCHANGED outcome
    /\ UNCHANGED otherVars
    /\ UNCHANGED <<impl, question, hits, context, prompt, gen_text, parsed, calls>>

\* routes/ask.py: one check, one error for both rejections
RouterValidate ==
    /\ pc = "Validating" /\ impl = "router"
    /\ q' = Strip(question)
    /\ IF q' = <<>> \/ ~input_guardrail(q')
       THEN Finish(HTTPException(400, "Only math questions are allowed."))
       ELSE pc' = "Retrieving" /\ UNCHANGED outcome
    /\ UNCHANGED otherVars
    /\ UNCHANGED <<impl, question, hits, context, prompt, gen_text, parsed, calls>>

\* a slip: the comparison made strict
AboveThreshold_Strict(score) == score > KB_THRESHOLD

\* score >= KB_THRESHOLD
AboveThreshold(score) == score >= KB_THRESHOLD

\* hits = kb_search(q, top_k=KB_TOPK) and the branch on hits[0].score, the same
\* in both handlers
TakesHitPath(hs) == hs # <<>> /\ AboveThreshold(hs[1].score)

KbSearch ==
    /\ pc = "Retrieving"
    /\ calls' = Append(calls, "retrieval")
    /\ \E hs \in KbReplies :
          /\ hits' = hs
          /\ IF TakesHitPath(hs)
             THEN pc' = "RetrievalHit" /\ prompt' = "retrieved_example"
             ELSE pc' = "Fallback" /\ UNCHANGED prompt
    /\ UNCHANGED otherVars
    /\ UNCHANGED <<impl, question, q, context, gen_text, parsed, outcome>>

\* embed_text or the qdrant client raises inside kb_search: nothing catches it
KbSearchFails ==
    /\ pc = "Retrieving"
    /\ calls' = Append(calls, "retrieval")
    /\ Finish(Unhandled("RetrievalUnavailable"))
    /\ UNCHANGED otherVars
    /\ UNCHANGED <<impl, question, q, hits, context, prompt, gen_text, parsed>>

\* the text the output guardrail is given: str(steps) + final_answer
GuardedText(steps, final_answer) == StrList(steps) \o final_answer

\* what main.py returns for steps on the hit path: the parsed steps, else the
\* payload's steps as one element when there are any
MainHitSteps(steps, kb_steps) ==
    IF steps # <<>> THEN steps ELSE IF kb_steps # <<>> THEN <<kb_steps>> ELSE <<>>

MainHitFinal(final_answer, kb_answer) ==
    IF final_answer # <<>> THEN final_answer ELSE kb_answer

\* a slip: the rounding left out
ReportedConf_NoRound(conf, score) == Max(conf, score)

\* round(max(conf, score), 3)
ReportedConf(conf, score) == Round3(Max(conf, score))

\* a slip: every hit listed as a source
HitSources_AllHits(hs) == [i \in DOMAIN hs |-> IntToStr(hs[i].id)]

\* sources=[str(top.id)] with top = hits[0]
HitSources(hs) == <<IntToStr(hs[1].id)>>

\* backend/backend/main.py, lines 142-183: generation, parsing, output check,
\* substitution from the payload, response
MainRetrievalHit ==
    /\ pc = "RetrievalHit" /\ impl = "main"
    /\ calls' = Append(calls, "generation")
    /\ \E gen \in GenReplies :
          \E top \in {hits[1]}, p \in {parse_generation_result(gen)} :
              /\ gen_text' = gen
              /\ parsed' = p
              /\ IF ~output_guardrail(GuardedText(p.steps, p.final_answer))
                 THEN Finish(HTTPException(400, "Unsafe or off-topic content detected in model output."))
                 ELSE Finish(AskOut(MainHitSteps(p.steps, top.payload.steps),
                                    MainHitFinal(p.final_answer, top.payload.final_answer),
                                    HitSources(hits),
                                    ReportedConf(p.conf, top.score)))
    /\ UNCHANGED otherVars
    /\ UNCHANGED <<impl, question, q, hits, context, prompt>>

\* routes/ask.py, lines 34-41: no substitution from the payload
RouterRetrievalHit ==
    /\ pc = "RetrievalHit" /\ impl = "router"
    /\ calls' = Append(calls, "generation")
    /\ \E gen \in GenReplies :
          \E top \in {hits[1]}, p \in {router_parse_generation_result(gen)} :
              /\ gen_text' = gen
              /\ parsed' = p
              /\ IF ~output_guardrail(GuardedText(p.steps, p.final_answer))
                 THEN Finish(HTTPException(400, "Unsafe output detected."))
                 ELSE Finish(AskOut(p.steps, p.final_answer, HitSources(hits),
                                    ReportedConf(p.conf, top.score)))
    /\ UNCHANGED otherVars
    /\ UNCHANGED <<impl, question, q, hits, context, prompt>>

\* a slip: the web search issued before the branch on the hits, so on the hit
\* path too
WebSearch_AlsoOnHit ==
    /\ pc \in {"Fallback", "RetrievalHit"}
    /\ \A i \in DOMAIN calls : calls[i] # "websearch"
    /\ calls' = Append(calls, "websearch")
    /\ \E c \in WebContexts : context' = c
    /\ pc' = IF pc = "Fallback" THEN "FallbackGenerate" ELSE pc
    /\ UNCHANGED otherVars
    /\ UNCHANGED <<impl, question, q, hits, prompt, gen_text, parsed, outcome>>

\* a slip: the web search left out, the fallback prompt built with no context
WebSearch_Skipped ==
    /\ pc = "Fallback"
    /\ context' = <<>>
    /\ prompt' = "no_context"
    /\ pc' = "FallbackGenerate"
    /\ UNCHANGED otherVars
    /\ UNCHANGED <<impl, question, q, hits, gen_text, parsed, calls, outcome>>

\* context = web_search_fallback(q): snippets, or "" (no API key, a non-OK
\* answer, no snippet); main.py picks the prompt by it, routes/ask.py has one
WebSearch ==
    /\ pc = "Fallback"
    /\ calls' = Append(calls, "websearch")
    /\ \E c \in WebContexts :
          /\ context' = c
          /\ prompt' = IF impl = "router" THEN "student_asked_context"
                       ELSE IF c # <<>> THEN "search_snippets" ELSE "no_context"
    /\ pc' = "FallbackGenerate"
    /\ UNCHANGED otherVars
    /\ UNCHANGED <<impl, question, q, hits, gen_text, parsed, outcome>>

\* a slip: the hit path's max against the top score copied to the fallback
FallbackConf_WithScore(conf, hs) == Round3(IF hs = <<>> THEN conf ELSE Max(conf, hs[1].score))

\* confidence=round(float(conf), 3)
FallbackConf(conf, hs) == Round3(conf)

\* a slip: gen declared global in main.py, so the fallback's str(gen) reads
\* the text another request's hit branch left there
MainFallback_GlobalGen ==
    /\ pc = "FallbackGenerate" /\ impl = "main"
    /\ calls' = Append(calls, "generation")
    /\ \E gen \in GenReplies :
          \E p \in {parse_generation_result(gen)} :
              /\ gen_text' = gen
              /\ parsed' = p
              /\ IF ~output_guardrail(GuardedText(p.steps, p.final_answer))
                 THEN Finish(HTTPException(400, "Unsafe or irrelevant content detected in model output."))
                 ELSE IF p.steps # <<>>
                 THEN Finish(AskOut(p.steps, p.final_answer, <<>>, FallbackConf(p.conf, hits)))
                 ELSE IF \E r \in DOMAIN reqs : reqs[r].prompt = "retrieved_example" /\ reqs[r].parsed # NoParse
                 THEN \E r \in DOMAIN reqs :
                         /\ reqs[r].prompt = "retrieved_example" /\ reqs[r].parsed # NoParse
                         /\ Finish(AskOut(<<reqs[r].gen_text>>, p.final_answer, <<>>,
                                          FallbackConf(p.conf, hits)))
                 ELSE Finish(Unhandled("UnboundLocalError"))
    /\ UNCHANGED otherVars
    /\ UNCHANGED <<impl, question, q, hits, context, prompt>>

\* backend/backend/main.py, lines 205-219: steps or [str(gen)] reads gen, a local
\* that only the hit branch assigns, so with no parsed steps it raises
MainFallback ==
    /\ pc = "FallbackGenerate" /\ impl = "main"
    /\ calls' = Append(calls, "generation")
    /\ \E gen \in GenReplies :
          \E p \in {parse_generation_result(gen)} :
              /\ gen_text' = gen
              /\ parsed' = p
              /\ IF ~output_guardrail(GuardedText(p.steps, p.final_answer))
                 THEN Finish(HTTPException(400, "Unsafe or irrelevant content detected in model output."))
                 ELSE IF p.steps = <<>>
                 THEN Finish(Unhandled("UnboundLocalError"))
                 ELSE Finish(AskOut(p.steps, p.final_answer, <<>>, FallbackConf(p.conf, hits)))
    /\ UNCHANGED otherVars
    /\ UNCHANGED <<impl, question, q, hits, context, prompt>>

\* routes/ask.py, lines 45-47: no output guardrail on this path
RouterFallback ==
    /\ pc = "FallbackGenerate" /\ impl = "router"
    /\ calls' = Append(calls, "generation")
    /\ \E gen \in GenReplies :
          \E p \in {router_parse_generation_result(gen)} :
              /\ gen_text' = gen
              /\ parsed' = p
              /\ Finish(AskOut(p.steps, p.final_answer, <<>>, FallbackConf(p.conf, hits)))
    /\ UNCHANGED otherVars
    /\ UNCHANGED <<impl, question, q, hits, context, prompt>>

\* generate_with_gemini raises (resp.raise_for_status()): nothing catches it
GenerateFails ==
    /\ pc \in {"RetrievalHit", "FallbackGenerate"}
    /\ calls' = Append(calls, "generation")
    /\ Finish(Unhandled("GenerationUnavailable"))
    /\ UNCHANGED otherVars
    /\ UNCHANGED <<impl, question, q, hits, context, prompt, gen_text, parsed>>

Next ==
    \/ MainValidate
    \/ RouterValidate
    \/ KbSearch
    \/ KbSearchFails
    \/ MainRetrievalHit
    \/ RouterRetrievalHit
    \/ WebSearch
    \/ MainFallback
    \/ RouterFallback
    \/ GenerateFails

Spec == Init /\ [][Next]_vars

(***************************************************************************)
(* How a request ended, by the error the handler raised.                   *)
(***************************************************************************)
IsResponse(o) == o.kind = "response"

IsEmptyInput(o) == o.kind = "error" /\ o.status = 400 /\ o.detail = "Empty question provided."

IsOffDomain(o) ==
    /\ o.kind = "error" /\ o.status = 400
    /\ o.detail \in {"This AI agent only supports mathematical questions.",
                     "Only math questions are allowed."}

IsUnsafeOutput(o) ==
    /\ o.kind = "error" /\ o.status = 400
    /\ o.detail \in {"Unsafe or off-topic content detected in model output.",
                     "Unsafe or irrelevant content detected in model output.",
                     "Unsafe output detected."}

\* the request got past kb_search: the branch on the hits was taken
OnHitPath ==
    \/ pc = "RetrievalHit"
    \/ pc = "Done" /\ Len(calls) = 2 /\ calls[2] = "generation"

OnFallbackPath ==
    \/ pc \in {"Fallback", "FallbackGenerate"}
    \/ pc = "Done" /\ Len(calls) >= 2 /\ calls[2] = "websearch"

\* generate_with_gemini returned and its text was parsed
GenerationParsed ==
    pc = "Done" /\ calls # <<>> /\ calls[Len(calls)] = "generation"
    /\ outcome.detail # "GenerationUnavailable"

\* text holds a deny-listed keyword, case-insensitively
HasBanned(text) == \E bad \in banned_keywords : Contains(Lower(text), bad)

HasBannedIn(steps, final_answer) ==
    HasBanned(final_answer) \/ \E i \in DOMAIN steps : HasBanned(steps[i])

(***************************************************************************)
(* Claims.                                                                 *)
(***************************************************************************)
\* C1: once retrieval has answered, the request is on the retrieval-hit path
\* iff there is at least one hit and the top hit's score is at least the
\* threshold 0.78 (a score equal to it included); otherwise it is on the
\* fallback path.
C1_HitPathIffTopScoreAtLeastThreshold ==
    (OnHitPath \/ OnFallbackPath) =>
        /\ OnHitPath <=> (Len(hits) >= 1 /\ hits[1].score >= 7800)
        /\ OnFallbackPath <=> (Len(hits) = 0 \/ hits[1].score < 7800)

\* C1 witness: a top hit scoring exactly the threshold is on the hit path, and
\* a hit just below it is on the fallback path in another state
C1_Witness == pc = "RetrievalHit" /\ hits # <<>> /\ hits[1].score = 7800

\* C2 (as claimed): whenever the parsed generator output holds a deny-listed
\* keyword in a step or in the final answer, on either path, the request ends
\* with UnsafeOutput and no Response.
C2_UnsafeParsedOutputIsRejected ==
    (GenerationParsed /\ HasBannedIn(parsed.steps, parsed.final_answer))
        => IsUnsafeOutput(outcome)

\* C3 (as claimed): no Response holds a deny-listed keyword in its steps or
\* its final answer, whether they were parsed or taken from the payload.
C3_NoResponseHoldsBannedKeyword ==
    IsResponse(outcome) => ~HasBannedIn(outcome.steps, outcome.final_answer)

\* C4 (as claimed): every question with no allow-listed keyword ends with
\* OffDomain.
C4_Original_NoKeywordIsOffDomain ==
    (pc # "Validating" /\ ~\E word \in allowed_keywords : Contains(Lower(question), word))
        => IsOffDomain(outcome)

\* C4 (amended): every question that is not empty or whitespace-only and has
\* no allow-listed keyword ends with OffDomain.
C4_NonBlankNoKeywordIsOffDomain ==
    (/\ pc # "Validating"
     /\ \E i \in DOMAIN question : ~IsSpace(question[i])
     /\ ~\E word \in allowed_keywords : Contains(Lower(question), word))
        => IsOffDomain(outcome)

\* C4 witness: main.py rejects the non-blank question "hello there" as off-domain
C4_Witness ==
    /\ pc = "Done" /\ impl = "main" /\ IsOffDomain(outcome)
    /\ question = <<"h", "e", "l", "l", "o", " ", "t", "h", "e", "r", "e">>

\* C5 (as claimed): an empty or whitespace-only question ends with EmptyInput,
\* no external call is issued before validation has passed, and a request
\* that ends with EmptyInput or OffDomain has issued no external call.
C5_EmptyInputBeforeAnyCall ==
    /\ pc = "Validating" => calls = <<>>
    /\ (IsEmptyInput(outcome) \/ IsOffDomain(outcome)) => calls = <<>>
    /\ (pc # "Validating" /\ \A i \in DOMAIN question : IsSpace(question[i]))
          => IsEmptyInput(outcome)

\* C6 (as claimed): on the fallback path, a generator text that parses to no
\* steps and no final answer ends in a Response with steps [] and final
\* answer "".
C6_FallbackEmptyParseIsEmptyResponse ==
    (OnFallbackPath /\ GenerationParsed /\ parsed.steps = <<>> /\ parsed.final_answer = <<>>)
        => /\ IsResponse(outcome)
           /\ outcome.steps = <<>>
           /\ outcome.final_answer = <<>>

\* C7 (as claimed): a Response of the hit path holds the parsed steps, or the
\* payload's steps as its one element when none were parsed (for a payload
\* that has steps), and the parsed final answer, or the payload's when none
\* was parsed.
C7_HitPathSubstitutesPayload ==
    (OnHitPath /\ IsResponse(outcome)) =>
        /\ parsed.steps # <<>> => outcome.steps = parsed.steps
        /\ (parsed.steps = <<>> /\ hits[1].payload.steps # <<>>)
              => outcome.steps = <<hits[1].payload.steps>>
        /\ parsed.final_answer # <<>> => outcome.final_answer = parsed.final_answer
        /\ parsed.final_answer = <<>> => outcome.final_answer = hits[1].payload.final_answer

\* C8: the confidence of a hit-path Response is max(0.6, top score) rounded to
\* three decimals: a whole number of thousandths at most half a thousandth
\* away from the maximum.
C8_HitConfidenceIsRoundedMax ==
    (OnHitPath /\ IsResponse(outcome)) =>
        LET m == IF hits[1].score >= 6000 THEN hits[1].score ELSE 6000
        IN  /\ outcome.confidence % 10 = 0
            /\ outcome.confidence - m <= 5
            /\ m - outcome.confidence <= 5

\* C8 witness: a score of 0.9106 is reported as 0.911
C8_Witness ==
    OnHitPath /\ IsResponse(outcome) /\ hits[1].score = 9106 /\ outcome.confidence = 9110

\* C9: the confidence of a fallback Response is 0.6, whatever the hits scored
\* and whatever the generator wrote.
C9_FallbackConfidenceIsConstant ==
    (OnFallbackPath /\ IsResponse(outcome)) => outcome.confidence = 6000

\* C9 witness: a fallback Response after a top hit just below the threshold
C9_Witness ==
    /\ OnFallbackPath /\ IsResponse(outcome) /\ hits # <<>> /\ hits[1].score = 7799
    /\ outcome.confidence = 6000 /\ outcome.steps # <<>>

\* C10: the sources of a Response are the top hit's identifier alone on the
\* hit path and empty on the fallback path, so non-empty iff the hit path.
C10_SourcesAreTopHitOrEmpty ==
    IsResponse(outcome) =>
        /\ OnHitPath => outcome.sources = <<IntToStr(hits[1].id)>>
        /\ OnFallbackPath => outcome.sources = <<>>
        /\ outcome.sources # <<>> <=> OnHitPath

\* C10 witness: a hit-path Response after two hits names hit 42 alone
C10_Witness ==
    /\ OnHitPath /\ IsResponse(outcome) /\ Len(hits) = 2 /\ hits[2].id # hits[1].id
    /\ outcome.sources = <<<<"4", "2">>>>

\* the number of calls of one collaborator among the calls issued
CallCount(name) == Cardinality({i \in DOMAIN calls : calls[i] = name})

\* kb_search raised: the request ended right after the retrieval call
RetrievalFailed == pc = "Done" /\ calls = <<"retrieval">>

\* generate_with_gemini raised: the request ended after the generation call
\* with nothing parsed
GenerationFailed ==
    pc = "Done" /\ calls # <<>> /\ calls[Len(calls)] = "generation" /\ parsed = NoParse

\* C11 (as claimed): the confidence of every Response is between 0 and 1,
\* whatever the top hit scored.
C11_ConfidenceInUnitInterval ==
    IsResponse(outcome) => (0 <= outcome.confidence /\ outcome.confidence <= 10000)

\* C12: a request issues at most one retrieval call, at most one generation
\* call and at most one web-search call, and a web-search call only when the
\* hits sent it to the fallback path (none, or a top score under 0.78).
C12_AtMostOneCallEach ==
    /\ CallCount("retrieval") <= 1
    /\ CallCount("generation") <= 1
    /\ CallCount("websearch") <= 1
    /\ CallCount("websearch") = 1 => (Len(hits) = 0 \/ hits[1].score < 7800)

\* C12 witness: a hit-path request answered after one retrieval and one
\* generation call, with no web search
C12_Witness ==
    /\ pc = "Done" /\ IsResponse(outcome) /\ hits # <<>> /\ hits[1].score >= 7800
    /\ calls = <<"retrieval", "generation">>

\* C13: every generation call comes after the retrieval call, on the fallback
\* path also after the web-search call, and no retrieval or web-search call
\* comes after a generation call.
C13_CallsInFixedOrder ==
    \A i \in DOMAIN calls :
        calls[i] = "generation" =>
            /\ \E j \in 1..(i - 1) : calls[j] = "retrieval"
            /\ (Len(hits) = 0 \/ hits[1].score < 7800)
                  => \E j \in 1..(i - 1) : calls[j] = "websearch"
            /\ \A k \in (i + 1)..Len(calls) : calls[k] \notin {"retrieval", "websearch"}

\* C13 witness: a fallback request that issued retrieval, web search and
\* generation in this order
C13_Witness ==
    pc = "Done" /\ hits = <<>> /\ calls = <<"retrieval", "websearch", "generation">>

\* C14: a failing retrieval call ends the request with a 500 error and no
\* web-search or generation call follows it; a failing generation call ends
\* the request with a 500 error and no Response.
C14_CollaboratorFailurePropagates ==
    /\ RetrievalFailed => (outcome.kind = "error" /\ outcome.status = 500)
    /\ outcome.detail = "RetrievalUnavailable" => (pc = "Done" /\ calls = <<"retrieval">>)
    /\ GenerationFailed => (outcome.kind = "error" /\ outcome.status = 500 /\ ~IsResponse(outcome))

\* C14 witness: a request whose generation call failed on the fallback path
C14_Witness ==
    /\ GenerationFailed /\ outcome.detail = "GenerationUnavailable"
    /\ calls = <<"retrieval", "websearch", "generation">>

\* C16 (as claimed): a request that has ended has ended in a Response or in
\* one of the named errors (EmptyInput, OffDomain, UnsafeOutput,
\* RetrievalUnavailable, GenerationUnavailable).
C16_EndsInResponseOrNamedError ==
    pc = "Done" =>
        \/ IsResponse(outcome)
        \/ IsEmptyInput(outcome) \/ IsOffDomain(outcome) \/ IsUnsafeOutput(outcome)
        \/ outcome.kind = "error"
           /\ outcome.detail \in {"RetrievalUnavailable", "GenerationUnavailable"}


(***************************************************************************)
(* Several requests in flight.  Both handlers are plain functions, so the  *)
(* framework runs each call on a worker thread of its own: every call has  *)
(* its own frame, and the threads interleave between any two steps.  The   *)
(* frame of the thread that runs is in the variables of askVars; the       *)
(* frames of the others wait in reqs.                                      *)
(***************************************************************************)
NumReqs == 2

Requests == 1..NumReqs

CurrentFrame ==
    [impl |-> impl, pc |-> pc, question |-> question, q |-> q, hits |-> hits,
     context |-> context, prompt |-> prompt, gen_text |-> gen_text,
     parsed |-> parsed, calls |-> calls, outcome |-> outcome]

\* the frame of a call that has not run yet
StartFrame(handler, text) ==
    [impl |-> handler, pc |-> "Validating", question |-> text, q |-> <<>>, hits |-> <<>>,
     context |-> <<>>, prompt |-> "none", gen_text |-> <<>>,
     parsed |-> NoParse, calls |-> <<>>, outcome |-> NoOutcome]

Frame(r) == IF r = cur THEN CurrentFrame ELSE reqs[r]

\* one application, so one handler, serves every request
ConcInit ==
    /\ cur = 1
    /\ \E handler \in {"main", "router"} :
          /\ impl = handler
          /\ question \in ConcQuestions
          /\ pc = "Validating"
          /\ q = <<>>
          /\ hits = <<>>
          /\ context = <<>>
          /\ prompt = "none"
          /\ gen_text = <<>>
          /\ parsed = NoParse
          /\ calls = <<>>
          /\ outcome = NoOutcome
          /\ reqs \in [Requests \ {1} -> {StartFrame(handler, text) : text \in ConcQuestions}]
    /\ ptest = NoTest
    /\ gtest = NoTest
    /\ ctest = NoTest
    /\ fb = NoTest

\* the scheduler suspends the running thread and resumes another one that has
\* not returned yet: each thread gets back its own locals
Switch ==
    /\ cur # 0
    /\ \E r \in DOMAIN reqs :
          /\ reqs[r].pc # "Done"
          /\ cur' = r
          /\ reqs' = [x \in (DOMAIN reqs \ {r}) \cup {cur} |->
                         IF x = cur THEN CurrentFrame ELSE reqs[x]]
          /\ impl' = reqs[r].impl
          /\ pc' = reqs[r].pc
          /\ question' = reqs[r].question
          /\ q' = reqs[r].q
          /\ hits' = reqs[r].hits
          /\ context' = reqs[r].context
          /\ prompt' = reqs[r].prompt
          /\ gen_text' = reqs[r].gen_text
          /\ parsed' = reqs[r].parsed
          /\ calls' = reqs[r].calls
          /\ outcome' = reqs[r].outcome
    /\ UNCHANGED <<ptest, gtest, ctest, fb>>

ConcNext == Next \/ Switch

SpecConc == ConcInit /\ [][ConcNext]_vars

(***************************************************************************)
(* One call of ask run alone, as a function of the question and of what    *)
(* the collaborators reply: reply.kb_ok and reply.gen_ok say whether       *)
(* kb_search and generate_with_gemini returned or raised.                  *)
(***************************************************************************)
ask_main(text, reply) ==
    LET stripped == Strip(text)
        p == parse_generation_result(reply.gen_text)
    IN  IF stripped = <<>>
        THEN HTTPException(400, "Empty question provided.")
        ELSE IF ~input_guardrail(stripped)
        THEN HTTPException(400, "This AI agent only supports mathematical questions.")
        ELSE IF ~reply.kb_ok
        THEN Unhandled("RetrievalUnavailable")
        ELSE IF ~reply.gen_ok
        THEN Unhandled("GenerationUnavailable")
        ELSE IF TakesHitPath(reply.hits)
        THEN IF ~output_guardrail(GuardedText(p.steps, p.final_answer))
             THEN HTTPException(400, "Unsafe or off-topic content detected in model output.")
             ELSE AskOut(MainHitSteps(p.steps, reply.hits[1].payload.steps),
                         MainHitFinal(p.final_answer, reply.hits[1].payload.final_answer),
                         HitSources(reply.hits),
                         ReportedConf(p.conf, reply.hits[1].score))
        ELSE IF ~output_guardrail(GuardedText(p.steps, p.final_answer))
             THEN HTTPException(400, "Unsafe or irrelevant content detected in model output.")
             ELSE IF p.steps = <<>>
             THEN Unhandled("UnboundLocalError")
             ELSE AskOut(p.steps, p.final_answer, <<>>, FallbackConf(p.conf, reply.hits))

ask_router(text, reply) ==
    LET stripped == Strip(text)
        p == router_parse_generation_result(reply.gen_text)
    IN  IF stripped = <<>> \/ ~input_guardrail(stripped)
        THEN HTTPException(400, "Only math questions are allowed.")
        ELSE IF ~reply.kb_ok
        THEN Unhandled("RetrievalUnavailable")
        ELSE IF ~reply.gen_ok
        THEN Unhandled("GenerationUnavailable")
        ELSE IF TakesHitPath(reply.hits)
        THEN IF ~output_guardrail(GuardedText(p.steps, p.final_answer))
             THEN HTTPException(400, "Unsafe output detected.")
             ELSE AskOut(p.steps, p.final_answer, HitSources(reply.hits),
                         ReportedConf(p.conf, reply.hits[1].score))
        ELSE AskOut(p.steps, p.final_answer, <<>>, FallbackConf(p.conf, reply.hits))

\* what the collaborators replied to the call of a frame that has returned
ReplyOf(f) ==
    [kb_ok |-> f.calls # <<"retrieval">>,
     hits |-> f.hits,
     gen_ok |-> ~(f.calls # <<>> /\ f.calls[Len(f.calls)] = "generation" /\ f.parsed = NoParse),
     gen_text |-> f.gen_text]

RunAlone(f) ==
    IF f.impl = "main" THEN ask_main(f.question, ReplyOf(f))
    ELSE ask_router(f.question, ReplyOf(f))

\* the frame's call was rejected on its input, or on the generator's output
InputRejected(f) == f.pc = "Done" /\ f.calls = <<>>

OutputRejected(f) ==
    /\ f.pc = "Done" /\ f.outcome.kind = "error"
    /\ f.parsed # NoParse
    /\ ~output_guardrail(GuardedText(f.parsed.steps, f.parsed.final_answer))

\* C15 (as claimed): the three rejections are told apart by their error
\* value: of two requests to the same handler, a blank question and an
\* off-domain one never end with the same error, and a question rejected on
\* input never ends with the same error as one rejected on the output.
C15_RejectionsAreDistinguishable ==
    \A a, b \in Requests :
        (Frame(a).pc = "Done" /\ Frame(b).pc = "Done") =>
            /\ (InputRejected(Frame(a)) /\ InputRejected(Frame(b))
                  /\ Strip(Frame(a).question) = <<>> /\ Strip(Frame(b).question) # <<>>)
               => Frame(a).outcome # Frame(b).outcome
            /\ (InputRejected(Frame(a)) /\ OutputRejected(Frame(b)))
               => Frame(a).outcome # Frame(b).outcome

\* C17: under every interleaving of the requests' steps, each request that
\* has ended has the outcome that one call of its handler, run alone, gives
\* for the same question and the same replies of retrieval and generation.
C17_ConcurrentOutcomeIsSoloOutcome ==
    \A r \in Requests : Frame(r).pc = "Done" => Frame(r).outcome = RunAlone(Frame(r))

\* C17 witness: a request ends with a response while another one, suspended
\* after its retrieval, is still in flight
C17_Witness ==
    /\ cur # 0
    /\ pc = "Done" /\ outcome.kind = "response"
    /\ \E r \in DOMAIN reqs :
          reqs[r].pc \in {"RetrievalHit", "FallbackGenerate"} /\ reqs[r].calls # <<>>


(***************************************************************************)
(* The result parsers called on their own: a raw text is parsed, other     *)
(* texts may be parsed in between, then the raw text is parsed again, or   *)
(* the first result is written back as text and that text is parsed.       *)
(***************************************************************************)
MaxBetween == 1

\* no request is in flight
AskIdle ==
    /\ impl = "none" /\ pc = "Idle"
    /\ question = <<>> /\ q = <<>> /\ hits = <<>> /\ context = <<>>
    /\ prompt = "none" /\ gen_text = <<>> /\ parsed = NoParse
    /\ calls = <<>> /\ outcome = NoOutcome
    /\ cur = 0 /\ reqs = <<>>

\* lines a generator can answer with, beyond those of GenLines: a step with
\* nothing after its numeral, an equation, a final line without content, a
\* numeral set apart from its parenthesis
ParserLines == GenLines \cup {
    <<"3", ".">>,
    <<"x", " ", "=", " ", "2">>,
    <<"A", "N", "S", "W", "E", "R", ":">>,
    <<"4", " ", ")", " ", "S", "i", "m", "p", "l", "i", "f", "y">>}

RawTexts ==
    {Join(<<"\n">>, ls) : ls \in UNION {[1..n -> ParserLines] : n \in 0..MaxGenLines}}

BetweenTexts == {
    <<"1", ".", " ", "A", "p", "p", "l", "y", " ", "p", "o", "w", "e", "r", " ", "r", "u", "l", "e", "\n", "2", ".", " ", "S", "i", "m", "p", "l", "i", "f", "y", "\n", "A", "n", "s", "w", "e", "r", ":", " ", "3", "x", "^", "2">>,
    <<"S", "u", "r", "e", ",", " ", "h", "a", "p", "p", "y", " ", "t", "o", " ", "h", "e", "l", "p">>}

\* the steps as the loop over the lines leaves them, before the post-pass
\* (routes/ask.py has no post-pass)
ScannedSteps(which, text) ==
    IF which = "main"
    THEN ScanLines(StrippedLines(text), [steps |-> <<>>, final_answer |-> <<>>]).steps
    ELSE RouterScanLines(StrippedLines(text), [steps |-> <<>>, final_answer |-> <<>>]).steps

Parse(which, text) ==
    IF which = "main" THEN parse_generation_result(text)
    ELSE router_parse_generation_result(text)

\* steps and final_answer written back as text: the steps numbered "1. ",
\* "2. ", ... one per line, then a "Final Answer: " line
NumberedSteps(steps) ==
    [i \in DOMAIN steps |-> IntToStr(i) \o <<".", " ">> \o steps[i]]

Rebuild(steps, final_answer) ==
    Join(<<"\n">>,
         Append(NumberedSteps(steps),
                <<"F", "i", "n", "a", "l", " ", "A", "n", "s", "w", "e", "r", ":", " ">> \o final_answer))

ParserInit ==
    /\ AskIdle
    /\ gtest = NoTest
    /\ ctest = NoTest
    /\ fb = NoTest
    /\ \E which \in {"main", "router"}, text \in RawTexts :
          ptest = [pc |-> "raw", parser |-> which, raw |-> text, scanned |-> <<>>,
                   first |-> NoParse,
                   between |-> 0, last |-> NoParse, again |-> NoParse,
                   rebuilt |-> <<>>, reparsed |-> NoParse]

ParseRaw ==
    /\ ptest.pc = "raw"
    /\ \E p \in {Parse(ptest.parser, ptest.raw)} :
          ptest' = [ptest EXCEPT !.pc = "parsed", !.first = p, !.last = p,
                                 !.scanned = ScannedSteps(ptest.parser, ptest.raw)]
    /\ UNCHANGED <<askVars, cur, reqs, gtest, ctest, fb>>

ParseBetween ==
    /\ ptest.pc = "parsed" /\ ptest.between < MaxBetween
    /\ \E text \in BetweenTexts :
          \E p \in {Parse(ptest.parser, text)} :
              ptest' = [ptest EXCEPT !.between = @ + 1, !.last = p]
    /\ UNCHANGED <<askVars, cur, reqs, gtest, ctest, fb>>

ParseAgain ==
    /\ ptest.pc = "parsed"
    /\ \E p \in {Parse(ptest.parser, ptest.raw)} :
          ptest' = [ptest EXCEPT !.pc = "again", !.again = p, !.last = p]
    /\ UNCHANGED <<askVars, cur, reqs, gtest, ctest, fb>>

RebuildText ==
    /\ ptest.pc = "parsed" /\ ptest.between = 0
    /\ ptest' = [ptest EXCEPT !.pc = "rebuilt",
                               !.rebuilt = Rebuild(ptest.first.steps, ptest.first.final_answer)]
    /\ UNCHANGED <<askVars, cur, reqs, gtest, ctest, fb>>

ParseRebuilt ==
    /\ ptest.pc = "rebuilt"
    /\ \E p \in {Parse(ptest.parser, ptest.rebuilt)} :
          ptest' = [ptest EXCEPT !.pc = "reparsed", !.reparsed = p, !.last = p]
    /\ UNCHANGED <<askVars, cur, reqs, gtest, ctest, fb>>

ParserNext == ParseRaw \/ ParseBetween \/ ParseAgain \/ RebuildText \/ ParseRebuilt

SpecParser == ParserInit /\ [][ParserNext]_vars

\* C18 (as claimed): parsing the text rebuilt from a parse result gives the
\* same steps and the same final answer, for both parsers.
C18_ReparsingRebuiltTextIsIdentity ==
    ptest.pc = "reparsed" =>
        /\ ptest.reparsed.steps = ptest.first.steps
        /\ ptest.reparsed.final_answer = ptest.first.final_answer

MaxGuardFrags == 2

\* one character outside ASCII: the long s, U+017F, a lowercase letter that
\* str.lower() leaves alone and whose uppercase is "S"
LongS == "U+017F"

ToUpper == [c \in LowerSet |-> CHOOSE u \in UpperSet : ToLower[u] = c]

\* str.upper(), str.swapcase() (str.lower() is Lower)
UpperChar(c) == IF c \in LowerSet THEN ToUpper[c] ELSE IF c = LongS THEN "S" ELSE c

Upper(text) == [i \in DOMAIN text |-> UpperChar(text[i])]

SwapCase(text) ==
    [i \in DOMAIN text |-> IF text[i] \in UpperSet THEN ToLower[text[i]] ELSE UpperChar(text[i])]

Recase(how, text) ==
    IF how = "upper" THEN Upper(text)
    ELSE IF how = "lower" THEN Lower(text)
    ELSE SwapCase(text)

GuardFrags == {
    <<"S">>,
    <<LongS>>,
    <<"o", "l", "v", "e">>,
    <<"u", "i", "c", "i", "d", "e">>,
    <<"H", "a", "C", "k">>,
    <<" ", "x", "^", "2">>}

GuardTexts == {Concat(fs) : fs \in UNION {[1..n -> GuardFrags] : n \in 0..MaxGuardFrags}}

GuardInit ==
    /\ AskIdle
    /\ ptest = NoTest
    /\ ctest = NoTest
    /\ fb = NoTest
    /\ \E text \in GuardTexts :
          gtest = [pc |-> "text", original |-> text, text |-> text, how |-> "none",
                   accepts_input |-> FALSE, accepts_output |-> FALSE,
                   recased_input |-> FALSE, recased_output |-> FALSE]

CallInputGuardrail ==
    /\ gtest.pc \in {"text", "recased"}
    /\ \E b \in {input_guardrail(gtest.text)} :
          gtest' = IF gtest.pc = "text"
                   THEN [gtest EXCEPT !.pc = "text_in", !.accepts_input = b]
                   ELSE [gtest EXCEPT !.pc = "recased_in", !.recased_input = b]
    /\ UNCHANGED <<askVars, cur, reqs, ptest, ctest, fb>>

CallOutputGuardrail ==
    /\ gtest.pc \in {"text_in", "recased_in"}
    /\ \E b \in {output_guardrail(gtest.text)} :
          gtest' = IF gtest.pc = "text_in"
                   THEN [gtest EXCEPT !.pc = "text_out", !.accepts_output = b]
                   ELSE [gtest EXCEPT !.pc = "recased_out", !.recased_output = b]
    /\ UNCHANGED <<askVars, cur, reqs, ptest, ctest, fb>>

ChangeCase ==
    /\ gtest.pc = "text_out"
    /\ \E how \in {"upper", "lower", "swapcase"} :
          gtest' = [gtest EXCEPT !.pc = "recased", !.how = how, !.text = Recase(how, gtest.text)]
    /\ UNCHANGED <<askVars, cur, reqs, ptest, ctest, fb>>

GuardNext == CallInputGuardrail \/ CallOutputGuardrail \/ ChangeCase

SpecGuard == GuardInit /\ [][GuardNext]_vars

\* some keyword of words is in text at some offset, letter case aside
KeywordAt(text, word, i) ==
    /\ i + Len(word) - 1 <= Len(text)
    /\ \A j \in DOMAIN word : LowerChar(text[i + j - 1]) = word[j]

HoldsKeyword(text, words) == \E word \in words : \E i \in DOMAIN text : KeywordAt(text, word, i)

\* C19 (as claimed): the input guardrail accepts a text iff its lower-cased
\* form holds an allow-listed keyword, the output guardrail accepts it iff
\* its lower-cased form holds no deny-listed keyword, neither call changes
\* the text or anything else, and after any change of letter case both
\* give the result they gave before.
C19_GuardrailsCaseInsensitiveAndPure ==
    /\ gtest.pc \in {"text_in", "text_out"} =>
          /\ gtest.accepts_input = HoldsKeyword(gtest.original, allowed_keywords)
          /\ gtest.text = gtest.original
    /\ gtest.pc = "text_out" =>
          gtest.accepts_output = ~HoldsKeyword(gtest.original, banned_keywords)
    /\ AskIdle /\ ptest = NoTest
    /\ gtest.pc \in {"recased_in", "recased_out"} => gtest.recased_input = gtest.accepts_input
    /\ gtest.pc = "recased_out" => gtest.recased_output = gtest.accepts_output


(***************************************************************************)
(* The line classes of the result parser as the specification words them.  *)
(***************************************************************************)
\* digits, then '.' or ')', then content
StatedNumbered(ln) ==
    LET d == SkipDigits(ln, 1) IN d > 1 /\ d <= Len(ln) /\ ln[d] \in {".", ")"}

StatedNumberedContent(ln) == Strip(Drop(ln, SkipDigits(ln, 1) + 1))

\* "final answer" or "answer" in any letter case, optional whitespace, ':' or
\* '-', then content
StatedFinalMark(ln) ==
    LET low == Lower(ln)
        k == IF MatchAt(low, <<"f", "i", "n", "a", "l", " ", "a", "n", "s", "w", "e", "r">>, 1) THEN 12
             ELSE IF MatchAt(low, <<"a", "n", "s", "w", "e", "r">>, 1) THEN 6 ELSE 0
        p == SkipSpaces(ln, k + 1)
    IN  IF k > 0 /\ p <= Len(ln) /\ ln[p] \in {":", "-"} THEN p ELSE 0

StatedFinal(ln) == StatedFinalMark(ln) > 0

StatedFinalContent(ln) == Strip(Drop(ln, StatedFinalMark(ln) + 1))

\* the steps the line loop is to give for these trimmed, non-empty lines
RECURSIVE StatedSteps(_)
StatedSteps(lines) ==
    IF lines = <<>> THEN <<>>
    ELSE LET ln == Head(lines)
         IN  IF StatedNumbered(ln) THEN <<StatedNumberedContent(ln)>> \o StatedSteps(Tail(lines))
             ELSE IF ~StatedFinal(ln) /\ HasMathMarker(ln) THEN <<ln>> \o StatedSteps(Tail(lines))
             ELSE StatedSteps(Tail(lines))

\* the final-answer lines of a text, in order
StatedFinalLines(text) == SelectSeq(StrippedLines(text), StatedFinal)

\* C21 (as claimed): before the post-pass the steps of either parser are, in
\* line order, the content after the numeral of every numbered line and the
\* whole of every other line that is no final-answer line and holds a math
\* marker; nothing else.
C21_ScannedStepsAreAsStated ==
    ptest.pc # "raw" => ptest.scanned = StatedSteps(StrippedLines(ptest.raw))

\* C22 (as claimed): with a final-answer line in the raw text, final_answer
\* is the content of the last such line.
C22_FinalAnswerIsLastFinalLine ==
    (ptest.pc # "raw" /\ StatedFinalLines(ptest.raw) # <<>>) =>
        ptest.first.final_answer
            = StatedFinalContent(StatedFinalLines(ptest.raw)[Len(StatedFinalLines(ptest.raw))])

\* C23 (as claimed): the post-pass of main.py moves the last step to
\* final_answer iff no final-answer line was captured, there is a step, and
\* the last step reads like a short expression; the other steps stay as
\* they were, and without a promotion final_answer and steps stay as scanned.
C23_PromotionIffNoFinalLine ==
    (ptest.pc # "raw" /\ ptest.parser = "main") =>
        IF /\ StatedFinalLines(ptest.raw) = <<>>
           /\ ptest.scanned # <<>>
           /\ LooksLikeAnswer(ptest.scanned[Len(ptest.scanned)])
        THEN /\ ptest.first.steps = SubSeq(ptest.scanned, 1, Len(ptest.scanned) - 1)
             /\ ptest.first.final_answer = ptest.scanned[Len(ptest.scanned)]
        ELSE ptest.first.steps = ptest.scanned


\* C24 (as claimed): on the fallback path, whether the web search returned
\* snippets or the empty string, exactly one generation call is issued and,
\* once the generator has answered, the request ends with a Response or with
\* UnsafeOutput.
C24_EmptyWebSearchIsNoError ==
    (pc = "Done" /\ OnFallbackPath /\ GenerationParsed) =>
        /\ CallCount("generation") = 1
        /\ IsResponse(outcome) \/ IsUnsafeOutput(outcome)


(***************************************************************************)
(* The feedback route, routes/feedback.py.  A call appends its row to the  *)
(* log file, then reads the whole file back, counts the rows rated 4 or    *)
(* more, and starts a retraining job when the count is a multiple of 10.   *)
(* The handler is a plain function, so calls run on worker threads: a call *)
(* can be between its write and its read while others write.               *)
(***************************************************************************)
RETRAIN_TRIGGER_COUNT == 10

MaxCalls == 3

NumWorkers == 2

\* rating: int, expected 1-5
Ratings == {1, 4, 5}

\* feedback: str | None
Feedbacks == {"None", "helpful"}

\* the row csv.writer writes for a request: None is written as the empty
\* field; question and timestamp are written alike and left out here
LogRow(req) ==
    [user_id |-> req.user_id,
     feedback |-> IF req.feedback = "None" THEN "" ELSE req.feedback,
     rating |-> req.rating]

\* a log file with n rows rated 5 written earlier
SeedLog(n) == [i \in 1..n |-> [user_id |-> <<"s", "e", "e", "d">>, feedback |-> "", rating |-> 5]]

InitialLogs ==
    {SeedLog(n) : n \in {0, RETRAIN_TRIGGER_COUNT - 2, RETRAIN_TRIGGER_COUNT - 1}}

\* a slip: the file opened with mode "w"
WriteRow_Truncating(file, row) == <<row>>

\* open(FEEDBACK_LOG, "a") and writer.writerow(...)
WriteRow(file, row) == Append(file, row)

\* len(df[df["rating"] >= 4])
PositiveRows(file) == Cardinality({i \in DOMAIN file : file[i].rating >= 4})

NoCall == [pc |-> "idle", req |-> [user_id |-> <<>>, feedback |-> "None", rating |-> 0],
           seen |-> 0, retraining |-> FALSE]

FeedbackInitWith(workers) ==
    /\ AskIdle
    /\ ptest = NoTest /\ gtest = NoTest /\ ctest = NoTest
    /\ \E file \in InitialLogs :
          fb = [workers |-> workers, initial |-> file, log |-> file, submitted |-> <<>>,
                calls |-> [c \in 1..MaxCalls |-> NoCall], jobs |-> 0]

InFlight == {c \in DOMAIN fb.calls : fb.calls[c].pc = "written"}

\* lines 14-17: the row of the next call is appended
FeedbackAppend ==
    /\ fb # NoTest
    /\ Cardinality(InFlight) < fb.workers
    /\ \E c \in DOMAIN fb.calls :
          /\ fb.calls[c].pc = "idle"
          /\ \A b \in 1..(c - 1) : fb.calls[b].pc # "idle"
          /\ \E rating \in Ratings, text \in Feedbacks :
                \E req \in {[user_id |-> IntToStr(c), feedback |-> text, rating |-> rating]} :
                    fb' = [fb EXCEPT !.log = WriteRow(@, LogRow(req)),
                                     !.submitted = Append(@, LogRow(req)),
                                     !.calls[c].pc = "written",
                                     !.calls[c].req = req]
    /\ UNCHANGED <<askVars, cur, reqs, ptest, gtest, ctest>>

\* lines 19-24: the file is read back, the rows rated 4 or more are counted
FeedbackCount ==
    /\ fb # NoTest
    /\ \E c \in InFlight :
          \E n \in {PositiveRows(fb.log)} :
              fb' = [fb EXCEPT !.calls[c].pc = "done",
                               !.calls[c].seen = n,
                               !.calls[c].retraining = (n % RETRAIN_TRIGGER_COUNT = 0),
                               !.jobs = IF n % RETRAIN_TRIGGER_COUNT = 0 THEN @ + 1 ELSE @]
    /\ UNCHANGED <<askVars, cur, reqs, ptest, gtest, ctest>>

FeedbackNext == FeedbackAppend \/ FeedbackCount

\* one call at a time
FeedbackInit == FeedbackInitWith(1)

SpecFeedback == FeedbackInit /\ [][FeedbackNext]_vars

\* calls on NumWorkers worker threads
FeedbackConcInit == FeedbackInitWith(NumWorkers)

SpecFeedbackConc == FeedbackConcInit /\ [][FeedbackNext]_vars

\* C25: the log is the initial log followed by the rows of the calls in the
\* order of their writes, one row a call, whatever the interleaving.
C25_LogIsAppendOnly ==
    /\ fb.log = fb.initial \o fb.submitted
    /\ Len(fb.log) = Len(fb.initial) + Cardinality({c \in DOMAIN fb.calls : fb.calls[c].pc # "idle"})
    /\ \A c \in DOMAIN fb.calls :
          fb.calls[c].pc # "idle" =>
              \E i \in DOMAIN fb.submitted :
                  /\ fb.submitted[i] = LogRow(fb.calls[c].req)
                  /\ fb.log[Len(fb.initial) + i] = LogRow(fb.calls[c].req)

\* C25 witness: two calls have written after a log that was not empty, the
\* second while the first had not returned
C25_Witness ==
    /\ Len(fb.initial) > 0
    /\ Len(fb.submitted) = 2
    /\ Cardinality(InFlight) = 2

\* the rows rated 4 or more once the row of the c-th call is in the log,
\* calls made one at a time
PositiveRowsAfter(c) == PositiveRows(SubSeq(fb.log, 1, Len(fb.initial) + c))

\* C28 (as claimed): with calls made one after the other, a call starts
\* retraining iff its row is rated 4 or more and brings the number of such
\* rows to a positive multiple of 10.
C28_RetrainingIffPositiveCrossing ==
    \A c \in DOMAIN fb.calls :
        fb.calls[c].pc = "done" =>
            (fb.calls[c].retraining <=>
                /\ fb.calls[c].req.rating >= 4
                /\ PositiveRowsAfter(c) > 0
                /\ PositiveRowsAfter(c) % 10 = 0)

\* the multiples of 10 that the number of rows rated 4 or more has reached
\* since the initial log
Crossings ==
    {m \in (PositiveRows(fb.initial) + 1)..PositiveRows(fb.log) : m % 10 = 0}

\* C29 (as claimed): once every call has returned, each multiple of 10 the
\* positive-row count has reached has exactly one retraining job, started
\* by a call that read that count.
C29_OneJobPerCrossing ==
    InFlight = {} =>
        \A m \in Crossings :
              Cardinality({c \in DOMAIN fb.calls :
                              fb.calls[c].retraining /\ fb.calls[c].seen = m}) = 1


(***************************************************************************)
(* generate_with_gemini of utils/core.py, from the text of the model's     *)
(* reply on: the trimming and the cleaning by mode.                        *)
(***************************************************************************)
\* (hi|hello|hey|dear student|i'd be happy to help), tried in this order
Greetings == <<
    <<"h", "i">>,
    <<"h", "e", "l", "l", "o">>,
    <<"h", "e", "y">>,
    <<"d", "e", "a", "r", " ", "s", "t", "u", "d", "e", "n", "t">>,
    <<"i", "'", "d", " ", "b", "e", " ", "h", "a", "p", "p", "y", " ", "t", "o", " ", "h", "e", "l", "p">>>>

\* the index after the run of [\.,!\s:-] characters of s that starts at i
RECURSIVE SkipGreetingTail(_, _)
SkipGreetingTail(s, i) ==
    IF i <= Len(s) /\ (IsSpace(s[i]) \/ s[i] \in {".", ",", "!", ":", "-"})
    THEN SkipGreetingTail(s, i + 1) ELSE i

\* re.sub(r'^\s*(hi|hello|...)[\.,!\s:-]*', '', text, flags=re.I)
StripGreeting(text) ==
    LET j == SkipSpaces(text, 1)
        low == Lower(text)
        found == {g \in DOMAIN Greetings : MatchAt(low, Greetings[g], j)}
    IN  IF found = {} THEN text
        ELSE LET g == CHOOSE x \in found : \A y \in found : x <= y
             IN  Drop(text, SkipGreetingTail(text, j + Len(Greetings[g])))

\* re.match(r'^\d+\s*\.', ln_strip)
CleanerIsStep(ln) ==
    LET d == SkipDigits(ln, 1)
        p == SkipSpaces(ln, d)
    IN  d > 1 /\ p <= Len(ln) /\ ln[p] = "."

\* the first pass over the lines: numbered steps, final-answer lines, math lines
CleanerKeeps(ln) == CleanerIsStep(ln) \/ IsFinalLine(ln) \/ HasMathMarker(ln)

MaxSalvageLen == 120

MaxSalvageLines == 6

\* len(ln.strip()) <= 120 and re.search(r'\d|\+|\-|\=|\^|/|\*', ln)
Salvageable(ln) ==
    /\ Len(Strip(ln)) <= MaxSalvageLen
    /\ \E i \in DOMAIN ln : IsDigit(ln[i]) \/ ln[i] \in {"+", "-", "=", "^", "/", "*"}

StripAll(lines) == [i \in DOMAIN lines |-> Strip(lines[i])]

NonEmpty(ln) == ln # <<>>

\* lines 222-241
StudentClean(text) ==
    LET lines == StripAll(SplitLines(StripGreeting(text)))
        kept == SelectSeq(lines, CleanerKeeps)
        salvaged == SelectSeq(lines, Salvageable)
        first == SelectSeq(lines, NonEmpty)
        filtered == IF kept # <<>> THEN kept
                    ELSE IF salvaged # <<>> THEN salvaged
                    ELSE SubSeq(first, 1, IF Len(first) < MaxSalvageLines THEN Len(first)
                                          ELSE MaxSalvageLines)
    IN  Strip(Join(<<"\n">>, filtered))

\* candidate.strip('. ')
RECURSIVE StripDots(_)
StripDots(s) ==
    IF s # <<>> /\ s[1] \in {".", " "} THEN StripDots(Tail(s))
    ELSE IF s # <<>> /\ s[Len(s)] \in {".", " "} THEN StripDots(SubSeq(s, 1, Len(s) - 1))
    ELSE s

\* re.match(r'^[\(\[]?([A-D])[\)\].:\s-]+', ln, flags=re.I): the position of
\* the letter, 0 when ln does not match
OptionMark(ln) ==
    LET k == IF ln # <<>> /\ ln[1] \in {"(", "["} THEN 2 ELSE 1
        ok(j) == /\ j + 1 <= Len(ln)
                 /\ LowerChar(ln[j]) \in {"a", "b", "c", "d"}
                 /\ (IsSpace(ln[j + 1]) \/ ln[j + 1] \in {")", "]", ".", ":", "-"})
    IN  IF ok(k) THEN k ELSE 0

\* the index after the match of \d*\.?\d+ at j in s, 0 when there is none
NumberCore(s, j) ==
    LET a == SkipDigits(s, j)
    IN  IF a + 1 <= Len(s) /\ s[a] = "." /\ IsDigit(s[a + 1]) THEN SkipDigits(s, a + 1)
        ELSE IF a > j THEN a
        ELSE 0

\* the index after the match of [-+]?\d*\.?\d+\/?\d* at i in s, 0 when none
NumberEnd(s, i) ==
    LET e == IF s[i] \in {"-", "+"} THEN NumberCore(s, i + 1) ELSE NumberCore(s, i)
    IN  IF e = 0 THEN 0
        ELSE IF e <= Len(s) /\ s[e] = "/" THEN SkipDigits(s, e + 1)
        ELSE e

\* re.findall(...)[-1]: the last of the matches found from left to right
\* without overlap, <<>> when there is none
RECURSIVE LastNumber(_, _, _)
LastNumber(s, i, last) ==
    IF i > Len(s) THEN last
    ELSE IF NumberEnd(s, i) > 0
    THEN LastNumber(s, NumberEnd(s, i), SubSeq(s, i, NumberEnd(s, i) - 1))
    ELSE LastNumber(s, i + 1, last)

MaxEvalLen == 200

\* lines 245-265
EvalAnswer(text) ==
    LET lines == StrippedLines(text)
        finals == SelectSeq(lines, IsFinalLine)
        IsOption(ln) == OptionMark(ln) > 0
        options == SelectSeq(lines, IsOption)
        number == LastNumber(text, 1, <<>>)
    IN  IF lines = <<>> THEN <<>>
        ELSE IF finals # <<>> THEN StripDots(FinalContent(finals[1]))
        ELSE IF options # <<>> THEN Upper(<<options[1][OptionMark(options[1])]>>)
        ELSE IF number # <<>> THEN Strip(number)
        ELSE SubSeq(lines[1], 1, IF Len(lines[1]) < MaxEvalLen THEN Len(lines[1]) ELSE MaxEvalLen)

\* text = text.strip(), then the branch on mode == "student": "legacy" has no
\* branch of its own, it takes the else
generate_with_gemini(text, mode) ==
    IF mode = "student" THEN StudentClean(Strip(text)) ELSE EvalAnswer(Strip(text))

MaxModelLines == 2

\* lines of a model reply
ModelLines == {
    <<>>,
    <<"1", ".", " ", "A", "p", "p", "l", "y", " ", "p", "o", "w", "e", "r", " ", "r", "u", "l", "e">>,
    <<"2", ")", " ", "S", "i", "m", "p", "l", "i", "f", "y">>,
    <<"F", "i", "n", "a", "l", " ", "A", "n", "s", "w", "e", "r", ":", " ", "3", "x", "^", "2", ".">>,
    <<"H", "e", "l", "l", "o", "!", " ", "H", "e", "r", "e", " ", "i", "s", " ", "t", "h", "e", " ", "s", "o", "l", "u", "t", "i", "o", "n">>,
    <<"H", "i", "n", "t", ":", " ", "x", " ", "=", " ", "2">>,
    <<" ", "x", "^", "2", " ", "+", " ", "C", " ">>,
    <<"S", "o", " ", "t", "h", "e", " ", "t", "o", "t", "a", "l", " ", "i", "s", " ", "-", "1", ".", "5", "/", "2", " ", "o", "r", " ", "6">>,
    <<"(", "b", ")", " ", "f", "o", "u", "r">>}

ModelTexts ==
    {Join(<<"\n">>, ls) : ls \in UNION {[1..n -> ModelLines] : n \in 0..MaxModelLines}}

GenInit ==
    /\ AskIdle
    /\ ptest = NoTest /\ gtest = NoTest /\ fb = NoTest
    /\ \E text \in ModelTexts, mode \in {"student", "eval", "legacy"} :
          ctest = [pc |-> "reply", text |-> text, mode |-> mode, result |-> <<>>,
                   parsed |-> NoParse]

\* the reply is cleaned and returned
GenReturn ==
    /\ ctest # NoTest /\ ctest.pc = "reply"
    /\ \E r \in {generate_with_gemini(ctest.text, ctest.mode)} :
          ctest' = [ctest EXCEPT !.pc = "returned", !.result = r]
    /\ UNCHANGED <<askVars, cur, reqs, ptest, gtest, fb>>

\* the handler parses what the generator returned
GenParse ==
    /\ ctest # NoTest /\ ctest.pc = "returned"
    /\ \E p \in {parse_generation_result(ctest.result)} :
          ctest' = [ctest EXCEPT !.pc = "parsed", !.parsed = p]
    /\ UNCHANGED <<askVars, cur, reqs, ptest, gtest, fb>>

GenNext == GenReturn \/ GenParse

SpecGen == GenInit /\ [][GenNext]_vars


\* a numbered step or a final-answer line, as the cleaning tells them
IsStepOrFinal(ln) == CleanerIsStep(ln) \/ IsFinalLine(ln)

\* C26 (as claimed): mode "legacy" returns the model text only trimmed; mode
\* "eval" returns a single line; mode "student" returns the numbered steps
\* and final-answer lines of the text, in their order.
C26_ModesReturnAsDocumented ==
    ctest.pc \in {"returned", "parsed"} =>
        /\ ctest.mode = "legacy" => ctest.result = Strip(ctest.text)
        /\ ctest.mode = "eval" => \A i \in DOMAIN ctest.result : ctest.result[i] # "\n"
        /\ ctest.mode = "student" =>
              SelectSeq(SplitLines(ctest.result), IsStepOrFinal)
                  = SelectSeq(StripAll(SplitLines(StripGreeting(Strip(ctest.text)))), IsStepOrFinal)

\* C27 (as claimed): parsing the text that student mode returns gives the
\* steps and the final answer that parsing the model text gives.
C27_CleaningKeepsWhatTheParserUses ==
    (ctest.pc = "parsed" /\ ctest.mode = "student") =>
        /\ ctest.parsed.steps = parse_generation_result(ctest.text).steps
        /\ ctest.parsed.final_answer = parse_generation_result(ctest.text).final_answer


(***************************************************************************)
(* The two ask handlers side by side.                                      *)
(***************************************************************************)
\* the error of an outcome by its kind
ErrorKind(o) ==
    IF IsEmptyInput(o) THEN "EmptyInput"
    ELSE IF IsOffDomain(o) THEN "OffDomain"
    ELSE IF IsUnsafeOutput(o) THEN "UnsafeOutput"
    ELSE o.detail

\* equal steps, final_answer, sources and confidence on success, the same
\* error kind on failure
SameOutcome(a, b) ==
    IF IsResponse(a) \/ IsResponse(b)
    THEN /\ IsResponse(a) /\ IsResponse(b)
         /\ a.steps = b.steps /\ a.final_answer = b.final_answer
         /\ a.sources = b.sources /\ a.confidence = b.confidence
    ELSE ErrorKind(a) = ErrorKind(b)

\* the handler that did not serve the request, called with the same question
\* and the same replies
OtherHandler(f) ==
    IF f.impl = "main" THEN ask_router(f.question, ReplyOf(f))
    ELSE ask_main(f.question, ReplyOf(f))

\* C30 (as claimed): a request ends as the other handler ends for the same
\* question and the same replies of retrieval, web search and generation.
C30_HandlersAreEquivalent ==
    pc = "Done" => SameOutcome(outcome, OtherHandler(CurrentFrame))

====
